---- MODULE Spec2Model ----
(***************************************************************************)
(* FastEuclidean<T> (src/lib.rs): a wrapper that gives a point, an ordered *)
(* sequence of floats, a Euclidean distance computed with the fast-math    *)
(* intrinsics fsub_fast, fmul_fast and fadd_fast, plus pass-through        *)
(* dereference, iteration and serde serialisation.                         *)
(*                                                                         *)
(* Floating point is modelled as a small binary format with the structure  *)
(* of f64: Precision significand bits, ExpMax+1 binades, subnormals,       *)
(* round-to-nearest-even, +/-Inf and NaN.  A finite value is the integer   *)
(* number of units 2^-FracBits it holds, so 1.0 is One = 2^FracBits.       *)
(***************************************************************************)
EXTENDS Integers, Sequences, FiniteSets, TLC

\* ---------------------------------------------------------------- bounds
\* Significand bits of the modelled format (f64 has 53).
Precision == 5
\* The unit of the format is 2^-FracBits (the smallest subnormal).
FracBits == 2
\* The largest binade: finite magnitudes are m * 2^e units, m < 2^Precision, e <= ExpMax.
ExpMax == 3
\* The longest point drawn from the coordinate grid.
MaxLen == 2

\* ---------------------------------------------------------------- the float format
RECURSIVE Pow2(_)
Pow2(n) == IF n = 0 THEN 1 ELSE 2 * Pow2(n - 1)

One == Pow2(FracBits)
MaxFinite == (Pow2(Precision) - 1) * Pow2(ExpMax)
PosInf == MaxFinite + 1
NegInf == 0 - PosInf
NaN == MaxFinite + 2

Abs(x) == IF x < 0 THEN 0 - x ELSE x
Min(x, y) == IF x <= y THEN x ELSE y

IsNaN(x) == x = NaN
IsFinite(x) == Abs(x) <= MaxFinite

\* The finite magnitudes of the format, and all its values.
Mags == {m * Pow2(e) : m \in 0..(Pow2(Precision) - 1), e \in 0..ExpMax}
Floats == Mags \cup {0 - m : m \in Mags}
F64 == Floats \cup {PosInf, NegInf, NaN}

\* The binade of a magnitude n/d units: the least e >= from whose significand
\* fits, the largest binade if none does.
RECURSIVE BinadeFrom(_, _, _)
BinadeFrom(n, d, from) ==
    IF from >= ExpMax \/ n < Pow2(Precision + from) * d THEN from
    ELSE BinadeFrom(n, d, from + 1)

Binade(n, d) == BinadeFrom(n, d, 0)

\* Round the non-negative rational n/d (in units) to nearest, ties to even;
\* a result above MaxFinite is PosInf.
RoundMag(n, d) ==
    LET ulp == Pow2(Binade(n, d))
        q == d * ulp
        m0 == n \div q
        r == n % q
        m == IF 2 * r > q \/ (2 * r = q /\ m0 % 2 = 1) THEN m0 + 1 ELSE m0
        k == m * ulp
    IN  IF k > MaxFinite THEN PosInf ELSE k

Round(n, d) == IF n < 0 THEN 0 - RoundMag(0 - n, d) ELSE RoundMag(n, d)

\* IEEE-754 addition, subtraction, multiplication and fused multiply-add.
Neg(x) == IF IsNaN(x) THEN NaN ELSE 0 - x

Add(x, y) ==
    IF IsNaN(x) \/ IsNaN(y) THEN NaN
    ELSE IF ~IsFinite(x) /\ ~IsFinite(y) THEN (IF x = y THEN x ELSE NaN)
    ELSE IF ~IsFinite(x) THEN x
    ELSE IF ~IsFinite(y) THEN y
    ELSE Round(x + y, 1)

Sub(x, y) == Add(x, Neg(y))

Sign(x) == IF x < 0 THEN 0 - 1 ELSE IF x > 0 THEN 1 ELSE 0

Mul(x, y) ==
    IF IsNaN(x) \/ IsNaN(y) THEN NaN
    ELSE IF ~IsFinite(x) \/ ~IsFinite(y)
         THEN (IF x = 0 \/ y = 0 THEN NaN
               ELSE IF Sign(x) * Sign(y) > 0 THEN PosInf ELSE NegInf)
    ELSE Round(x * y, One)

\* x * y + z with a single rounding, for finite operands.
Fma(x, y, z) == Round(x * y + z * One, One)

\* floor(sqrt(n)) for n >= 0, two bits of n at a time.
RECURSIVE ISqrt(_)
ISqrt(n) ==
    IF n < 2 THEN n
    ELSE LET r == 2 * ISqrt(n \div 4)
         IN  IF (r + 1) * (r + 1) <= n THEN r + 1 ELSE r

\* f64::sqrt: correctly rounded; sqrt of a negative is NaN.
Sqrt(x) ==
    IF IsNaN(x) \/ x < 0 THEN NaN
    ELSE IF x = PosInf THEN PosInf
    ELSE LET n == x * One
             root == ISqrt(n)
             q == Pow2(Binade(root, 1))
             lo == (root \div q) * q
             mid2 == 2 * lo + q
             m0 == lo \div q
         IN  IF 4 * n > mid2 * mid2 \/ (4 * n = mid2 * mid2 /\ m0 % 2 = 1)
             THEN lo + q
             ELSE lo

\* ---------------------------------------------------------------- fast-math intrinsics
\* The result of an intrinsic whose precondition is violated: no particular
\* value, and every later operation on it is again Poison.
Poison == MaxFinite + 3

Usable(x) == x # Poison /\ IsFinite(x)

\* std::intrinsics::{fsub_fast, fmul_fast, fadd_fast}: the IEEE result when the
\* operands and the result are finite, undefined behaviour otherwise.
fsub_fast(x, y) ==
    IF Usable(x) /\ Usable(y) /\ IsFinite(Sub(x, y)) THEN Sub(x, y) ELSE Poison

fmul_fast(x, y) ==
    IF Usable(x) /\ Usable(y) /\ IsFinite(Mul(x, y)) THEN Mul(x, y) ELSE Poison

fadd_fast(x, y) ==
    IF Usable(x) /\ Usable(y) /\ IsFinite(Add(x, y)) THEN Add(x, y) ELSE Poison

\* fadd_fast(acc, fmul_fast(a, a)) contracted into one fused multiply-add,
\* which the fast flags on both operations permit.
fmuladd_fast(a, acc) ==
    IF Usable(a) /\ Usable(acc) /\ IsFinite(Fma(a, a, acc)) THEN Fma(a, a, acc) ELSE Poison

\* What a call whose arithmetic was undefined may hand back; the values a
\* build produces in practice (Inf, NaN) and others a poison value may become.
UBOutcomes == {NaN, PosInf, NegInf, 0, 0 - One, One}

\* ---------------------------------------------------------------- builds
\* The code generated for the reduction where distance is called (the generic
\* function is compiled into its callers): "strict" performs the operations in
\* source order, each rounded on its own; "contract" fuses the multiply into
\* the add; "reassoc" keeps two partial sums (a two-lane vectorised loop)
\* and adds them at the end.
Builds == {"strict", "contract", "reassoc"}

Lanes(b) == IF b = "reassoc" THEN 2 ELSE 1

\* Mutant: the fold starts from 1.0.
FoldInitOne(b) == [l \in 1..Lanes(b) |-> One]

\* .fold(0.0, ..): the accumulator(s) before the first element.
FoldInit(b) == [l \in 1..Lanes(b) |-> 0]

\* Mutant: the difference is added without being squared.
MapFoldUnsquared(b, acc, k, x, y) ==
    LET lane == ((k - 1) % Lanes(b)) + 1
    IN  [acc EXCEPT ![lane] = fadd_fast(acc[lane], fsub_fast(x, y))]

\* Mutant: the difference is multiplied by the left coordinate, not by itself.
MapFoldSkewed(b, acc, k, x, y) ==
    LET lane == ((k - 1) % Lanes(b)) + 1
    IN  [acc EXCEPT ![lane] = fadd_fast(acc[lane], fmul_fast(fsub_fast(x, y), x))]

\* The closure of .map and the closure of .fold applied to the k-th pair (x, y).
MapFold(b, acc, k, x, y) ==
    LET a == fsub_fast(x, y)
        lane == ((k - 1) % Lanes(b)) + 1
    IN  IF b = "contract"
        THEN [acc EXCEPT ![lane] = fmuladd_fast(a, acc[lane])]
        ELSE [acc EXCEPT ![lane] = fadd_fast(acc[lane], fmul_fast(a, a))]

\* The value .fold returns: the accumulator, the lanes added up.
FoldResult(b, acc) == IF Lanes(b) = 1 THEN acc[1] ELSE fadd_fast(acc[1], acc[2])

\* Mutant: the zip stops one pair early.
ZipStopsEarly(s, r) == IF Min(Len(s), Len(r)) = 0 THEN 0 ELSE Min(Len(s), Len(r)) - 1

\* .zip: pairs are produced until the shorter iterator ends.
ZipLen(s, r) == Min(Len(s), Len(r))

\* .sqrt() of the fold's result: what distance returns.
SqrtOutcomes(t) == IF t = Poison THEN UBOutcomes ELSE {Sqrt(t)}

\* distance as a function of the two element sequences: the accumulator after
\* n pairs, and the values the call may return.
RECURSIVE FoldAcc(_, _, _, _)
FoldAcc(b, s, r, n) ==
    IF n = 0 THEN FoldInit(b)
    ELSE MapFold(b, FoldAcc(b, s, r, n - 1), n, s[n], r[n])

distance(b, s, r) == SqrtOutcomes(FoldResult(b, FoldAcc(b, s, r, ZipLen(s, r))))

\* ---------------------------------------------------------------- points
\* FastEuclidean<T>(T): the wrapper holds the point and nothing else.
new(t) == [live |-> TRUE, inner |-> t]
Unbuilt == [live |-> FALSE, inner |-> <<>>]

Slots == {"a", "b", "q"}

RECURSIVE SeqsUpTo(_, _)
SeqsUpTo(S, n) ==
    IF n = 0 THEN {<<>>}
    ELSE LET shorter == SeqsUpTo(S, n - 1)
         IN  shorter \cup {Append(s, x) : s \in {t \in shorter : Len(t) = n - 1}, x \in S}

\* The points the caller constructs: a grid over {0.0, 1.0} up to MaxLen
\* coordinates, and points that make the arithmetic underflow, overflow and round.
Tiny == Pow2(0)
Big == Pow2(Precision + ExpMax - 2)
Grid == SeqsUpTo({0, One}, MaxLen)
Samples ==
    { <<Tiny>>, <<Big>>, <<0 - One>>,
      <<One, 2 * One, 3 * One>>, <<4 * One, 6 * One, 3 * One>>,
      <<(5 * One) \div 2, (9 * One) \div 4>>,
      <<(3 * One) \div 2, 3 * One, (3 * One) \div 2>>, <<0, 0, 0>> }
Points == Grid \cup Samples

VARIABLES
    build,   \* the code generation of the distance call in progress
    pts,     \* slot -> the FastEuclidean value bound there
    pc,      \* "idle", or where the distance call in progress is: "zip", "done"
    self,    \* the slot of the call's &self
    rhs,     \* the slot of the call's rhs
    i,       \* the pairs the zip has produced so far
    acc,     \* the fold's accumulator(s)
    ret,     \* the value the call returns
    hist,    \* the completed distance calls and their values, most recent first
    out,     \* what the last dereference, iteration or serialisation returned
    wire,    \* the serialised form waiting to be deserialised
    dres     \* the Result of the last deserialisation

vars == <<build, pts, pc, self, rhs, i, acc, ret, hist, out, wire, dres>>

NoOut == [op |-> "none", slot |-> "-", val |-> <<>>]
NoWire == [from |-> "-", toks |-> <<>>]
NoRes == [status |-> "none", from |-> "-", err |-> "-"]

\* ---------------------------------------------------------------- distance, step by step
\* distance(&self, rhs): both iterators are created, the accumulator is 0.0.
\* What an earlier read returned is no longer looked at.
Call(s, r) ==
    /\ pc = "idle"
    /\ pts[s].live /\ pts[r].live
    /\ pc' = "zip"
    /\ self' = s
    /\ rhs' = r
    /\ i' = 0
    /\ \E b \in Builds : build' = b /\ acc' = FoldInit(b)
    /\ out' = NoOut
    /\ UNCHANGED <<pts, ret, hist, wire, dres>>

\* One more pair from the zip goes through the map and into the fold.
Step ==
    /\ pc = "zip"
    /\ i < ZipLen(pts[self].inner, pts[rhs].inner)
    /\ i' = i + 1
    /\ acc' = MapFold(build, acc, i + 1, pts[self].inner[i + 1], pts[rhs].inner[i + 1])
    /\ UNCHANGED <<build, pts, pc, self, rhs, ret, hist, out, wire, dres>>

\* The zip is exhausted: the fold returns and its square root is the result.
Finish ==
    /\ pc = "zip"
    /\ i >= ZipLen(pts[self].inner, pts[rhs].inner)
    /\ pc' = "done"
    /\ ret' \in SqrtOutcomes(FoldResult(build, acc))
    /\ UNCHANGED <<build, pts, self, rhs, i, acc, hist, out, wire, dres>>

\* The caller takes the value and remembers the most recent `keep` of them.
Return(keep) ==
    /\ pc = "done"
    /\ pc' = "idle"
    /\ hist' = SubSeq(<<[self |-> self, rhs |-> rhs, build |-> build, d |-> ret]>> \o hist,
                      1, Min(keep, Len(hist) + 1))
    /\ build' = "-"
    /\ self' = "-"
    /\ rhs' = "-"
    /\ i' = 0
    /\ acc' = <<>>
    /\ ret' = 0
    /\ UNCHANGED <<pts, out, wire, dres>>

\* ---------------------------------------------------------------- read access
\* Deref::deref: a reference to the wrapped value.
deref(p) == p.inner

\* <&FastEuclidean<T> as IntoIterator>::into_iter: the items of the wrapped
\* value's own by-reference iterator, drained in order.
RECURSIVE Drain(_, _)
Drain(t, k) == IF k > Len(t) THEN <<>> ELSE <<t[k]>> \o Drain(t, k + 1)

into_iter(p) == Drain(p.inner, 1)

Deref(s) ==
    /\ pc = "idle"
    /\ pts[s].live
    /\ out' = [op |-> "deref", slot |-> s, val |-> deref(pts[s])]
    /\ UNCHANGED <<build, pts, pc, self, rhs, i, acc, ret, hist, wire, dres>>

\* Mutant: iterating by reference consumes the wrapper, as iterating by value does.
IterRefConsumes(s) ==
    /\ pc = "idle"
    /\ pts[s].live
    /\ out' = [op |-> "iter", slot |-> s, val |-> into_iter(pts[s])]
    /\ pts' = [pts EXCEPT ![s] = Unbuilt]
    /\ UNCHANGED <<build, pc, self, rhs, i, acc, ret, hist, wire, dres>>

IterRef(s) ==
    /\ pc = "idle"
    /\ pts[s].live
    /\ out' = [op |-> "iter", slot |-> s, val |-> into_iter(pts[s])]
    /\ UNCHANGED <<build, pts, pc, self, rhs, i, acc, ret, hist, wire, dres>>

\* ---------------------------------------------------------------- serde
\* The wrapped value's own serialised form, here that of a sequence of f64 in
\* serde's data model: serialize_seq(Some(len)), one serialize_f64 per
\* element, end.  A token is [tok, v].
Tok(k, v) == [tok |-> k, v |-> v]

InnerSerialize(t) ==
    <<Tok("seq", Len(t))>> \o [k \in 1..Len(t) |-> Tok("f64", t[k])] \o <<Tok("end", 0)>>

\* The wrapped value's own deserialisation: a seq header, f64 elements up to
\* the end token, nothing after it.  The length in the header is a hint.
RECURSIVE Elements(_, _)
Elements(toks, k) ==
    IF k > Len(toks) THEN [ok |-> FALSE, val |-> <<>>, err |-> "eof"]
    ELSE IF toks[k].tok = "end"
         THEN (IF k = Len(toks) THEN [ok |-> TRUE, val |-> <<>>, err |-> "-"]
               ELSE [ok |-> FALSE, val |-> <<>>, err |-> "trailing"])
    ELSE IF toks[k].tok # "f64" THEN [ok |-> FALSE, val |-> <<>>, err |-> "invalid type"]
    ELSE LET rest == Elements(toks, k + 1)
         IN  IF rest.ok THEN [rest EXCEPT !.val = <<toks[k].v>> \o rest.val] ELSE rest

InnerDeserialize(toks) ==
    IF toks = <<>> THEN [ok |-> FALSE, val |-> <<>>, err |-> "eof"]
    ELSE IF toks[1].tok # "seq" THEN [ok |-> FALSE, val |-> <<>>, err |-> "invalid type"]
    ELSE Elements(toks, 2)

\* Mutant: the wrapper serialises itself as a newtype around the value.
serializeNewtype(p) == <<Tok("newtype", 0)>> \o InnerSerialize(p.inner)

\* Serialize for FastEuclidean<T>: self.0.serialize(serializer).
serialize(p) == InnerSerialize(p.inner)

\* Mutant: the wrapper rejects a value with a coordinate that is not finite.
deserializeChecked(toks) ==
    LET r == InnerDeserialize(toks)
    IN  IF r.ok /\ \A k \in 1..Len(r.val) : IsFinite(r.val[k])
        THEN [ok |-> TRUE, val |-> new(r.val), err |-> "-"]
        ELSE [ok |-> FALSE, val |-> Unbuilt, err |-> IF r.ok THEN "not finite" ELSE r.err]

\* Deserialize for FastEuclidean<T>: Ok(FastEuclidean::new(T::deserialize(d)?)).
deserialize(toks) ==
    LET r == InnerDeserialize(toks)
    IN  IF r.ok THEN [ok |-> TRUE, val |-> new(r.val), err |-> "-"]
        ELSE [ok |-> FALSE, val |-> Unbuilt, err |-> r.err]

Serialize(s) ==
    /\ pc = "idle"
    /\ pts[s].live
    /\ out' = [op |-> "serialize", slot |-> s, val |-> serialize(pts[s])]
    /\ UNCHANGED <<build, pts, pc, self, rhs, i, acc, ret, hist, wire, dres>>

\* The serialised form just produced is handed to a deserialiser.
Transmit ==
    /\ pc = "idle"
    /\ ~pts["q"].live
    /\ out.op = "serialize"
    /\ wire' = [from |-> out.slot, toks |-> out.val]
    /\ out' = NoOut
    /\ UNCHANGED <<build, pts, pc, self, rhs, i, acc, ret, hist, dres>>

\* Input from elsewhere: malformed forms, and well-formed ones whose
\* coordinates are not finite.
WireInputs ==
    { <<>>,
      <<Tok("str", 0)>>,
      <<Tok("seq", 1), Tok("str", 0), Tok("end", 0)>>,
      <<Tok("seq", 1), Tok("f64", One)>>,
      <<Tok("seq", 0), Tok("end", 0), Tok("f64", One)>>,
      InnerSerialize(<<NaN, One>>),
      InnerSerialize(<<PosInf>>) }

Feed(w) ==
    /\ pc = "idle"
    /\ ~pts["q"].live
    /\ wire = NoWire
    /\ wire' = [from |-> "ext", toks |-> w]
    /\ UNCHANGED <<build, pts, pc, self, rhs, i, acc, ret, hist, out, dres>>

\* let q = FastEuclidean::deserialize(..): on Ok the value is bound to q.
Deserialize ==
    /\ pc = "idle"
    /\ wire # NoWire
    /\ LET r == deserialize(wire.toks)
       IN  /\ pts' = IF r.ok THEN [pts EXCEPT !["q"] = r.val] ELSE pts
           /\ dres' = [status |-> IF r.ok THEN "ok" ELSE "err", from |-> wire.from, err |-> r.err]
    /\ wire' = NoWire
    /\ UNCHANGED <<build, pc, self, rhs, i, acc, ret, hist, out>>

\* ---------------------------------------------------------------- specifications
Idle ==
    /\ build = "-" /\ pc = "idle" /\ self = "-" /\ rhs = "-" /\ i = 0 /\ acc = <<>> /\ ret = 0
    /\ hist = <<>> /\ out = NoOut /\ wire = NoWire /\ dres = NoRes

\* Two points constructed by the caller; distance calls and read access.
Init ==
    /\ \E s \in Points, r \in Points : pts = [a |-> new(s), b |-> new(r), q |-> Unbuilt]
    /\ Idle

Next ==
    \/ \E s \in Slots, r \in Slots : Call(s, r)
    \/ Step
    \/ Finish
    \/ Return(1)
    \/ \E s \in Slots : Deref(s)
    \/ \E s \in Slots : IterRef(s)
    \/ \E s \in Slots : Serialize(s)

Spec == Init /\ [][Next]_vars

\* A point constructed by the caller is serialised and deserialised into q, or
\* q is read from external input; once q is built the points are measured
\* against b.
SerdePoints == SeqsUpTo({0, One}, MaxLen - 1) \cup {<<Tiny>>, <<Big, 0>>}

SerdeInit ==
    /\ \E s \in SerdePoints, r \in SerdePoints : pts = [a |-> new(s), b |-> new(r), q |-> Unbuilt]
    /\ Idle

SerdeNext ==
    \/ \E s \in Slots : ~pts["q"].live /\ wire = NoWire /\ Serialize(s)
    \/ Transmit
    \/ \E w \in WireInputs : out = NoOut /\ Feed(w)
    \/ Deserialize
    \/ \E s \in Slots : pts["q"].live /\ Call(s, "b")
    \/ Step
    \/ Finish
    \/ Return(1)

SpecSerde == SerdeInit /\ [][SerdeNext]_vars

\* Three points constructed by the caller and the distances between them.
TriPoints == SeqsUpTo({0, One}, MaxLen - 1) \cup {<<0, 0>>, <<0, One>>, <<Tiny>>, <<(3 * One) \div 4>>}

TriInit ==
    /\ \E s \in TriPoints, r \in TriPoints, u \in TriPoints :
          pts = [a |-> new(s), b |-> new(r), q |-> new(u)]
    /\ Idle

TriNext ==
    \/ \E c \in {<<"a", "b">>, <<"b", "q">>, <<"a", "q">>} : Call(c[1], c[2])
    \/ Step
    \/ Finish
    \/ Return(2)

SpecTri == TriInit /\ [][TriNext]_vars

\* ---------------------------------------------------------------- properties
\* The element sequences of the call in progress.
A == pts[self].inner
B == pts[rhs].inner

AllFinite(t) == \A k \in 1..Len(t) : IsFinite(t[k])
FiniteOperands == AllFinite(A) /\ AllFinite(B)

\* The value the fold of the call in progress returns.
Total == FoldResult(build, acc)

\* The sum of squared differences of the first n pairs as IEEE-754 evaluates
\* it in source order: a left fold from 0.0, every operation rounded once.
RECURSIVE LeftFold(_, _, _)
LeftFold(s, r, n) ==
    IF n = 0 THEN 0
    ELSE Add(LeftFold(s, r, n - 1), Mul(Sub(s[n], r[n]), Sub(s[n], r[n])))

\* r is a float nearest to the square root of the finite x >= 0.
NearestSqrt(r, x) ==
    /\ r \in Mags
    /\ \A f \in Mags : /\ f < r => 4 * x * One >= (f + r) * (f + r)
                      /\ f > r => 4 * x * One <= (f + r) * (f + r)

\* x is a float that is >= 0.0.
NonNegative(x) == x \in 0..MaxFinite \/ x = PosInf

\* x is a value of the format: m * 2^e units with m < 2^Precision, or special.
IsF64(x) ==
    \/ x \in {PosInf, NegInf, NaN}
    \/ \E e \in 0..ExpMax : Abs(x) % Pow2(e) = 0 /\ Abs(x) \div Pow2(e) < Pow2(Precision)

Prefix(t, n) == SubSeq(t, 1, n)

Ex2a == <<0, 0>>
Ex2b == <<One, One>>
Ex3a == <<One, 2 * One, 3 * One>>
Ex3b == <<4 * One, 6 * One, 3 * One>>

KnownValues ==
    /\ (A = Ex2a /\ B = Ex2b) => (Total = 2 * One /\ NearestSqrt(ret, 2 * One))
    /\ (A = Ex3a /\ B = Ex3b) => (Total = 25 * One /\ ret = 5 * One)

\* C1 as stated: for equal-length points with finite coordinates, distance is
\* the square root of the sum of squared differences accumulated by a left
\* fold from 0.0; (0,0),(1,1) gives sqrt(2) and (1,2,3),(4,6,3) gives 5.
C1_LeftFoldEveryBuild ==
    (pc = "done" /\ Len(A) = Len(B) /\ FiniteOperands)
        => /\ ret = Sqrt(LeftFold(A, B, Len(A)))
           /\ KnownValues

\* C1 amended: in a build that performs the operations in source order, each
\* rounded on its own, and when the sum does not overflow, distance is the
\* correctly rounded square root of the left fold from 0.0; in every build
\* (0,0),(1,1) gives sqrt(2), squared sum 2, and (1,2,3),(4,6,3) gives 5,
\* squared sum 25.
C1_LeftFoldInSourceOrder ==
    (pc = "done" /\ Len(A) = Len(B) /\ FiniteOperands)
        => /\ LET sum == LeftFold(A, B, Len(A))
              IN  (build = "strict" /\ IsFinite(sum))
                      => (Total = sum /\ ret = Sqrt(sum) /\ NearestSqrt(ret, sum))
           /\ KnownValues

C1_Witness ==
    /\ pc = "done" /\ build = "reassoc"
    /\ A = Ex3a /\ B = Ex3b /\ ret = 5 * One

C3_TriangleInequality ==
    (/\ pc = "done" /\ self = "a" /\ rhs = "q" /\ FiniteOperands /\ AllFinite(pts["b"].inner)
     /\ Len(hist) = 2
     /\ \E k \in 1..2 : /\ hist[k].self = "a" /\ hist[k].rhs = "b"
                        /\ hist[3 - k].self = "b" /\ hist[3 - k].rhs = "q")
        => ret <= Add(hist[1].d, hist[2].d)

\* C4: identity of indiscernibles: for points with finite coordinates,
\* distance(a, b) = 0 only if a and b hold the same element sequence.
C4_ZeroOnlyIfSame ==
    (pc = "done" /\ FiniteOperands /\ ret = 0) => A = B

\* The previous call had the operands of this one, swapped.
Swapped == hist # <<>> /\ hist[1].self = rhs /\ hist[1].rhs = self
\* The previous call had the operands of this one.
Repeated == hist # <<>> /\ hist[1].self = self /\ hist[1].rhs = rhs
\* This call and the previous one were compiled to the same operations, and
\* this one stayed within the safety contract of the constructor: no squared
\* difference or sum was NaN or infinite.
AlikeAndDefined == hist # <<>> /\ hist[1].build = build /\ Total # Poison

\* C5 as stated: for equal-length points with finite coordinates,
\* distance(a, b) equals distance(b, a).
C5_SymmetricOnFinite ==
    (pc = "done" /\ Swapped /\ Len(A) = Len(B) /\ FiniteOperands)
        => ret = hist[1].d

\* C5 amended: for equal-length points with finite coordinates whose squared
\* differences and their sum stay finite, distance(a, b) equals distance(b, a)
\* when both calls are compiled to the same operations.
C5_SymmetricWithinContract ==
    (pc = "done" /\ Swapped /\ Len(A) = Len(B) /\ FiniteOperands /\ AlikeAndDefined)
        => ret = hist[1].d

C5_Witness ==
    /\ pc = "done" /\ Swapped /\ self # rhs
    /\ Len(A) = 2 /\ Len(B) = 2 /\ A # B /\ AlikeAndDefined /\ build = "contract" /\ ret > 0

\* C6: for a point a with finite coordinates, of any length, the empty one
\* included, distance(a, a) is 0.
C6_DistanceToSelfIsZero ==
    (pc = "done" /\ A = B /\ AllFinite(A)) => ret = 0

C6_Witness ==
    /\ pc = "done" /\ self = rhs /\ A = <<Big>> /\ ret = 0

\* C7 as stated: for points with finite coordinates the accumulator is >= 0
\* after every step of the fold and distance(a, b) >= 0.
C7_NonNegativeOnFinite ==
    (pc # "idle" /\ FiniteOperands)
        => /\ \A l \in 1..Len(acc) : NonNegative(acc[l])
           /\ pc = "done" => NonNegative(ret)

\* C7 amended: for points with finite coordinates, as long as no squared
\* difference or sum has overflowed, the accumulator is >= 0 after every step
\* of the fold and distance(a, b) >= 0.
C7_NonNegativeWithinContract ==
    (pc # "idle" /\ FiniteOperands)
        => /\ \A l \in 1..Len(acc) : acc[l] # Poison => NonNegative(acc[l])
           /\ (pc = "done" /\ Total # Poison) => NonNegative(ret)

C7_Witness ==
    /\ pc = "done" /\ i = 2 /\ Len(A) # Len(B)
    /\ Total # Poison /\ Total > 0 /\ ret > 0

\* q was deserialised from the serialised form of the point in slot dres.from.
RoundTripped == dres.status # "none" /\ dres.from \in Slots

NoEnvelope == out.op = "serialize" => out.val = InnerSerialize(pts[out.slot].inner)

RoundTripYieldsSame == RoundTripped => (dres.status = "ok" /\ pts["q"] = new(pts[dres.from].inner))

\* This call and the previous one measure q and the point it was read from
\* against the same point.
SameAgainstOther ==
    /\ RoundTripped /\ hist # <<>> /\ hist[1].rhs = rhs
    /\ {hist[1].self, self} = {"q", dres.from}

C9_DeserializeAddsNothing ==
    [][(wire # NoWire /\ wire' = NoWire)
         => LET r == InnerDeserialize(wire.toks)
            IN  /\ r.ok => (dres'.status = "ok" /\ pts' = [pts EXCEPT !["q"] = [live |-> TRUE, inner |-> r.val]])
                /\ ~r.ok => (dres'.status = "err" /\ dres'.err = r.err /\ pts' = pts)]_vars

C9_Witness ==
    /\ dres.status = "ok" /\ dres.from = "ext"
    /\ pts["q"].live /\ \E k \in 1..Len(pts["q"].inner) : IsNaN(pts["q"].inner[k])

\* C10 as stated: distance calls, dereferences, by-reference iterations and
\* serialize calls leave every point's element sequence unchanged, and a
\* repeated distance(a, b) returns the same value.
C10_NothingChangesAnyPoint ==
    /\ [][pts' = pts]_vars
    /\ []((pc = "done" /\ Repeated) => ret = hist[1].d)

\* C10 amended: distance calls, dereferences, by-reference iterations and
\* serialize calls leave every point's element sequence unchanged, and a
\* repeated distance(a, b) whose computation stays finite returns the same
\* value when both calls are compiled to the same operations.
C10_NothingChangesWithinContract ==
    /\ [][pts' = pts]_vars
    /\ []((pc = "done" /\ Repeated /\ AlikeAndDefined) => ret = hist[1].d)

C10_Witness ==
    /\ pc = "done" /\ Repeated /\ self # rhs /\ Len(A) = 3 /\ Len(B) = 3
    /\ AlikeAndDefined /\ ret > 0

====
